---- MODULE Spec2Model ----
(***************************************************************************)
(* Model of the request-shaping layer of smart_quiz_api: the rate-limit    *)
(* checks of main.py and routers/quiz_router.py, the Redis-backed quiz     *)
(* cache and the retrying OpenAI wrapper of services/scraper_service.py.   *)
(* One process is one HTTP request travelling through                      *)
(*   enforce_rate_limit -> generate_quiz_from_article ->                   *)
(*   generate_quiz_from_url (get_cached_quiz, fetch_article_html,          *)
(*   classify_topic, call_openai, set_cached_quiz).                        *)
(* Every blocking I/O operation of the code is one step. In Spec the        *)
(* requests are served by different worker processes that share Redis, so  *)
(* they interleave between the steps; in SpecLoop they are served by one    *)
(* worker, on its event loop.                                              *)
(***************************************************************************)
EXTENDS Integers, Sequences, FiniteSets, TLC

\* ---------------------------------------------------------------- bounds
Limit == 2                \* K: requests per window of services.rate_limiter
Window == 3600            \* W: window length of services.rate_limiter, seconds

\* ------------------------------------------------------ program constants
CACHE_TTL == 3600
MaxAttempts == 3

\* the clock advances in steps of one time-to-live
Step == CACHE_TTL

Procs == {"r1", "r2"}
Identities == {"ip1", "ip2"}
Urls == {"u1"}
QuizTypes == {"MCQ"}
\* quiz_type is a free query string: the same quiz type as clients may spell it
QuizTypeForms == {"MCQ", "mcq"}
QuizTexts == {"q1", "q2"}
TopicTexts == {"Science"}
FallbackTopic == "General Knowledge"
Outcomes == {"ok", "transient", "auth"}
\* what openai.ChatCompletion.create does in one attempt: it returns, or raises
\* a transient OpenAIError, an AuthenticationError, or a non-OpenAI exception
CallOutcomes == Outcomes \cup {"other"}

VARIABLES
    store,      \* the Redis database: key -> value and remaining time to live
    windows,    \* the limiter's window of every client address
    pc,         \* where every request stands
    req,        \* the request's client address, url and quiz_type, and whether
                \* its client is gone
    attempts,   \* attempts made by the running call_openai
    last,       \* outcome of the running request's latest upstream attempt
    onlyTransient, \* no attempt of the running call_openai has failed other
                \* than transiently (history)
    topic,      \* generate_quiz_from_url's local `topic`
    quiz,       \* generate_quiz_from_url's local `quiz`
    result,     \* what the request returned
    called,     \* the running request has made an upstream attempt (history)
    joined,     \* the request that was in flight for the same key when this one
                \* missed the cache (history)
    sawExpired, \* the running request missed on a key whose entry had expired (history)
    passed,     \* per client address, the checks that let a request through
                \* in the window of `since` (history)
    since,      \* per client address, the time since the window of its counted
                \* checks began, -1 before the first (history)
    refused,    \* the limiter denied the request (history)
    clsFailed,  \* the running request's topic classification ran out of
                \* attempts (history)
    written     \* per key, the result last cached, the time since, and whether
                \* it has just replaced a live entry of another payload (history)

vars == <<store, windows, pc, req, attempts, last, onlyTransient, topic, quiz,
          result, called, joined, sawExpired, passed, since, refused, clsFailed, written>>

\* ------------------------------------------------------------ cache keys
\* hashlib.sha256(url.encode()).hexdigest(): a digest per url, no two alike
Sha256(url) == <<"sha256", url>>

cache_key_url(url, quiz_type) == <<"url_quiz_cache", quiz_type, Sha256(url)>>

Keys == {cache_key_url(u, q) : u \in Urls, q \in QuizTypeForms}

\* str.upper(), as generate_ai_quiz applies it to quiz_type
Upper(x) == IF x = "mcq" THEN "MCQ" ELSE x

NoPayload == [topic |-> "", quiz_type |-> "", source_url |-> "", quiz |-> ""]

\* json.dumps / json.loads of the result dict: a dict of strings survives the
\* round trip field by field
json_dumps(d) == <<d.topic, d.quiz_type, d.source_url, d.quiz>>

json_loads(x) == [topic |-> x[1], quiz_type |-> x[2], source_url |-> x[3], quiz |-> x[4]]

NoValue == json_dumps(NoPayload)

\* stored bytes that are no result of json_dumps: a JSON text cut short, and
\* bytes that are not UTF-8 (redis_client is built without decode_responses,
\* so get returns bytes and json.loads decodes them first)
Truncated == <<"{topic: Sci">>

NotUtf8 == <<"0xFF 0xFF">>

CorruptValues == {Truncated, NotUtf8}

\* the exception json.loads raises on the stored bytes, "none" if it returns
json_loads_raises(x) ==
    IF x = NotUtf8 THEN "UnicodeDecodeError"
    ELSE IF Len(x) # 4 THEN "JSONDecodeError"
    ELSE "none"

\* Redis keeps the expiry time of a key; ttl is what is left of it,
\* expires_at - now, as the TTL command reports it
NoEntry == [present |-> FALSE, value |-> NoValue, ttl |-> 0]

\* redis_client.get(key): the value, nothing once now > expires_at
redis_get(s, key) ==
    IF s[key].present /\ s[key].ttl >= 0 THEN s[key] ELSE NoEntry

\* SET key value EX ttl NX, which leaves an existing key alone
redis_setex_nx(s, key, ttl, value) ==
    IF redis_get(s, key).present THEN s
    ELSE [s EXCEPT ![key] = [present |-> TRUE, value |-> value, ttl |-> ttl]]

\* redis_client.setex(key, ttl, value): store/overwrite, expires_at = now + ttl
redis_setex(s, key, ttl, value) ==
    [s EXCEPT ![key] = [present |-> TRUE, value |-> value, ttl |-> ttl]]

\* a flush that removes nothing
redis_flushdb_none(s) == s

\* redis_client.flushdb()
redis_flushdb(s) == [k \in DOMAIN s |-> NoEntry]

\* d seconds pass: expired keys are gone
redis_elapse(s, d) ==
    [k \in DOMAIN s |->
        IF s[k].present /\ s[k].ttl - d >= 0 THEN [s[k] EXCEPT !.ttl = @ - d] ELSE NoEntry]

\* get_cached_quiz: [hit, value, raised]; hit is the truthiness of what it
\* returns, raised the exception that escapes it ("none" if it returns).
\* Only json.JSONDecodeError is caught.
Miss == [hit |-> FALSE, value |-> NoPayload, raised |-> "none"]

get_cached_quiz_off(s, url, quiz_type) == Miss

get_cached_quiz(s, url, quiz_type) ==
    LET e == redis_get(s, cache_key_url(url, quiz_type))
        err == json_loads_raises(e.value)
    IN  IF ~e.present THEN Miss
        ELSE IF err = "none"
        THEN [hit |-> TRUE, value |-> json_loads(e.value), raised |-> "none"]
        ELSE IF err = "JSONDecodeError" THEN Miss
        ELSE [hit |-> FALSE, value |-> NoPayload, raised |-> err]

set_cached_quiz_long(s, url, quiz_type, quiz_data) ==
    redis_setex(s, cache_key_url(url, quiz_type), 2 * CACHE_TTL, json_dumps(quiz_data))

set_cached_quiz(s, url, quiz_type, quiz_data) ==
    redis_setex(s, cache_key_url(url, quiz_type), CACHE_TTL, json_dumps(quiz_data))

\* --------------------------------------------------------- rate limiter
\* age is now - window_start; past the window all ages are alike
NoWindow == [present |-> FALSE, age |-> 0, request_count |-> 0]

\* variant: one window shared by all client addresses
allow_request_shared(w, id) ==
    IF ~w[id].present \/ w[id].age >= Window
    THEN [ok |-> TRUE,
          w |-> [i \in DOMAIN w |-> [present |-> TRUE, age |-> 0, request_count |-> 1]]]
    ELSE IF w[id].request_count < Limit
    THEN [ok |-> TRUE,
          w |-> [i \in DOMAIN w |-> [w[id] EXCEPT !.request_count = @ + 1]]]
    ELSE [ok |-> FALSE, w |-> w]

\* services.rate_limiter.limiter.allow_request: fixed window, one unit a call
allow_request(w, id) ==
    IF ~w[id].present \/ w[id].age >= Window
    THEN [ok |-> TRUE,
          w |-> [w EXCEPT ![id] = [present |-> TRUE, age |-> 0, request_count |-> 1]]]
    ELSE IF w[id].request_count < Limit
    THEN [ok |-> TRUE,
          w |-> [w EXCEPT ![id].request_count = @ + 1]]
    ELSE [ok |-> FALSE, w |-> w]

Min(a, b) == IF a < b THEN a ELSE b

\* idle eviction: the identity has had no activity in the current window,
\* that is, the window the limiter holds for it is over
EvictableAlways(w, id) == w[id].present

Evictable(w, id) == w[id].present /\ w[id].age >= Window

\* d seconds pass
limiter_elapse(w, d) ==
    [i \in DOMAIN w |-> IF w[i].present THEN [w[i] EXCEPT !.age = Min(@ + d, Window)] ELSE w[i]]

\* enforce_rate_limit: `if not limiter.allow_request(client_ip): return 429`
PassesAlways(ok) == TRUE

Passes(ok) == ok

\* generate_quiz_from_article: `if not limiter.allow_request(client_ip): raise 429`
RouteAdmitsAlways(ok) == TRUE

RouteAdmits(ok) == ok

\* ------------------------------------------------------------- results
\* cached tells a result read from the cache from a generated one (history)
NoResult == [kind |-> "none", payload |-> NoPayload, cached |-> FALSE]

Ok(p, c) == [kind |-> "ok", payload |-> p, cached |-> c]

Err(k) == [kind |-> k, payload |-> NoPayload, cached |-> FALSE]

\* gone: the client has disconnected (request.is_disconnected())
NoReq == [ip |-> "", url |-> "", quiz_type |-> "", gone |-> FALSE]

KeyOf(p) == cache_key_url(req[p].url, req[p].quiz_type)

\* the request is between its cache miss and its return
InFlight(p) == pc[p] \in {"fetch", "classify", "quiz", "store"}

\* tenacity @retry(stop=stop_after_attempt(3), wait=wait_random(1, 2)) around
\* call_openai: what happens after attempt number n ended with outcome o.
\* No retry= predicate is given, so every exception is retried; without
\* reraise the exhausted call raises tenacity.RetryError.
call_openai(n, o) ==
    IF o = "ok" THEN "return"
    ELSE IF n < MaxAttempts THEN "retry"
    ELSE "raise"

\* the exception an exhausted call_openai delivers: tenacity.RetryError, which
\* wraps the last attempt (reraise is not set)
call_openai_raises(o) == "RetryError"

\* utils.retry_utils.retry_openai_call: @retry(stop_after_attempt(3),
\* retry_if_exception_type(openai.error.OpenAIError), reraise=True).
\* Only OpenAIErrors are retried, the transient and the fatal alike.
retry_openai_call(n, o) ==
    IF o = "ok" THEN "return"
    ELSE IF o \in {"transient", "auth"} /\ n < MaxAttempts THEN "retry"
    ELSE "raise"

\* reraise=True: the exception delivered is the last attempt's own
retry_openai_call_raises(o) == o

\* classify_topic: the stripped response, or the default when call_openai raises
classify_topic(d, text) == IF d = "return" THEN text ELSE FallbackTopic

\* generate_quiz_from_url, except clause: log and re-raise, nothing is stored
OnFailureCached(s, url, quiz_type) ==
    set_cached_quiz(s, url, quiz_type, [NoPayload EXCEPT !.quiz = "error"])

OnFailure(s, url, quiz_type) == s

\* history of a key: nothing cached since the last flush
NotWritten == [age |-> -1, payload |-> NoPayload, over |-> FALSE]

\* history of a key: its time to live has passed
Expired == [age |-> CACHE_TTL + 1, payload |-> NoPayload, over |-> FALSE]

\* a result was cached for k, not flushed since, and now <= expires_at
Live(k) == written[k].age >= 0 /\ written[k].age <= CACHE_TTL

Init ==
    /\ store = [k \in Keys |-> NoEntry]
    /\ windows = [i \in Identities |-> NoWindow]
    /\ pc = [p \in Procs |-> "idle"]
    /\ req = [p \in Procs |-> NoReq]
    /\ attempts = [p \in Procs |-> 0]
    /\ last = [p \in Procs |-> ""]
    /\ onlyTransient = [p \in Procs |-> TRUE]
    /\ topic = [p \in Procs |-> ""]
    /\ quiz = [p \in Procs |-> ""]
    /\ result = [p \in Procs |-> NoResult]
    /\ called = [p \in Procs |-> FALSE]
    /\ joined = [p \in Procs |-> ""]
    /\ sawExpired = [p \in Procs |-> FALSE]
    /\ passed = [i \in Identities |-> 0]
    /\ since = [i \in Identities |-> -1]
    /\ refused = [p \in Procs |-> FALSE]
    /\ clsFailed = [p \in Procs |-> FALSE]
    /\ written = [k \in Keys |-> NotWritten]

\* history: no check of id has passed yet, or the window of the counted ones
\* is over
Fresh(id) == since[id] < 0 \/ since[id] >= Window

\* history: the checks passed in the window that holds now, after one more
\* check that let the request through (go) or turned it away
Count(id, n, go) ==
    LET before == IF Fresh(id) THEN 0 ELSE n
    IN  IF go THEN before + 1 ELSE before

\* history: a window begins with the first check passed after the last one ended
Began(id, t, go) == IF go /\ Fresh(id) THEN 0 ELSE t

\* ------------------------------------------------------------- actions
\* a request arrives and passes through the rate limiting middleware
enforce_rate_limit(p, ip, url, qt) ==
    /\ pc[p] = "idle"
    /\ LET a == allow_request(windows, ip)
           go == Passes(a.ok)
       IN  /\ windows' = a.w
           /\ passed' = [passed EXCEPT ![ip] = Count(ip, @, go)]
           /\ since' = [since EXCEPT ![ip] = Began(ip, @, go)]
           /\ refused' = [refused EXCEPT ![p] = ~a.ok]
           /\ pc' = [pc EXCEPT ![p] = IF go THEN "route" ELSE "done"]
           /\ result' = [result EXCEPT ![p] = IF go THEN NoResult ELSE Err("RateLimited")]
    /\ req' = [req EXCEPT ![p] = [ip |-> ip, url |-> url, quiz_type |-> qt, gone |-> FALSE]]
    /\ UNCHANGED <<store, attempts, last, topic, quiz, called, joined, sawExpired,
                   clsFailed, written>>
    /\ UNCHANGED onlyTransient

\* the route handler, were it to enter generate_quiz_from_url unchecked
generate_quiz_from_article_unchecked(p) ==
    /\ pc[p] = "route"
    /\ pc' = [pc EXCEPT ![p] = "lookup"]
    /\ UNCHANGED <<store, windows, req, attempts, last, onlyTransient, topic, quiz, result,
                   called, joined, sawExpired, passed, since, refused, clsFailed, written>>

\* the route handler checks the limiter again, then enters generate_quiz_from_url
generate_quiz_from_article(p) ==
    /\ pc[p] = "route"
    /\ LET a == allow_request(windows, req[p].ip)
           go == RouteAdmits(a.ok)
       IN  /\ windows' = a.w
           /\ passed' = [passed EXCEPT ![req[p].ip] = Count(req[p].ip, @, go)]
           /\ since' = [since EXCEPT ![req[p].ip] = Began(req[p].ip, @, go)]
           /\ refused' = [refused EXCEPT ![p] = ~a.ok]
           /\ pc' = [pc EXCEPT ![p] = IF go THEN "lookup" ELSE "done"]
           /\ result' = [result EXCEPT ![p] = IF go THEN NoResult ELSE Err("RateLimited")]
    /\ UNCHANGED <<store, req, attempts, last, topic, quiz, called, joined, sawExpired,
                   clsFailed, written>>
    /\ UNCHANGED onlyTransient

\* generate_quiz_from_url, lines 127-129: the cache lookup; an exception that
\* escapes get_cached_quiz is re-raised by the except clause of line 157
lookup(p) ==
    /\ pc[p] = "lookup"
    /\ LET r == get_cached_quiz(store, req[p].url, req[p].quiz_type)
           ends == r.hit \/ r.raised # "none"
       IN  /\ pc' = [pc EXCEPT ![p] = IF ends THEN "done" ELSE "fetch"]
           /\ result' = [result EXCEPT ![p] =
                  IF r.hit THEN Ok(r.value, TRUE)
                  ELSE IF r.raised # "none" THEN Err(r.raised)
                  ELSE NoResult]
           /\ joined' = [joined EXCEPT ![p] =
                  IF ~ends /\ \E q \in Procs \ {p} : InFlight(q) /\ KeyOf(q) = KeyOf(p)
                  THEN CHOOSE q \in Procs \ {p} : InFlight(q) /\ KeyOf(q) = KeyOf(p)
                  ELSE ""]
           /\ sawExpired' = [sawExpired EXCEPT ![p] = ~ends /\ written[KeyOf(p)] = Expired]
    /\ UNCHANGED <<store, windows, req, attempts, last, topic, quiz,
                   called, passed, since, refused, clsFailed, written>>
    /\ UNCHANGED onlyTransient

\* fetch_article_html and extract_clean_text: the text, or the exception re-raised
fetch_article_html(p, fetched) ==
    /\ pc[p] = "fetch"
    /\ pc' = [pc EXCEPT ![p] = IF fetched THEN "classify" ELSE "done"]
    /\ result' = [result EXCEPT ![p] = IF fetched THEN NoResult ELSE Err("FetchError")]
    /\ store' = IF fetched THEN store ELSE OnFailure(store, req[p].url, req[p].quiz_type)
    /\ sawExpired' = [sawExpired EXCEPT ![p] = fetched /\ @]
    /\ UNCHANGED <<windows, req, attempts, last, topic, quiz, called, joined,
                   passed, since, refused, clsFailed, written>>
    /\ UNCHANGED onlyTransient

\* one attempt of the call_openai of classify_topic
classify_attempt(p, o, text) ==
    /\ pc[p] = "classify"
    /\ LET d == call_openai(attempts[p] + 1, o)
       IN  /\ attempts' = [attempts EXCEPT ![p] = IF d = "retry" THEN @ + 1 ELSE 0]
           /\ pc' = [pc EXCEPT ![p] = IF d = "retry" THEN "classify" ELSE "quiz"]
           /\ topic' = [topic EXCEPT ![p] = IF d = "retry" THEN @ ELSE classify_topic(d, text)]
           /\ clsFailed' = [clsFailed EXCEPT ![p] = (d = "raise")]
    /\ last' = [last EXCEPT ![p] = o]
    /\ onlyTransient' = [onlyTransient EXCEPT ![p] =
           call_openai(attempts[p] + 1, o) = "retry" => @ /\ o = "transient"]
    /\ called' = [called EXCEPT ![p] = TRUE]
    /\ UNCHANGED <<store, windows, req, quiz, result, joined, sawExpired,
                   passed, since, refused, written>>

\* variant: a failed attempt is retried with no stop condition
quiz_attempt_unbounded(p, o, text) ==
    /\ pc[p] = "quiz"
    /\ pc' = [pc EXCEPT ![p] = IF o = "ok" THEN "store" ELSE "quiz"]
    /\ quiz' = [quiz EXCEPT ![p] = IF o = "ok" THEN text ELSE @]
    /\ attempts' = [attempts EXCEPT ![p] = 0]
    /\ called' = [called EXCEPT ![p] = TRUE]
    /\ last' = [last EXCEPT ![p] = o]
    /\ onlyTransient' = [onlyTransient EXCEPT ![p] = o # "ok" => @ /\ o = "transient"]
    /\ UNCHANGED <<store, windows, req, topic, result, joined, sawExpired, passed, since,
                   refused, clsFailed, written>>

\* one attempt of the call_openai of line 141
quiz_attempt(p, o, text) ==
    /\ pc[p] = "quiz"
    /\ LET d == call_openai(attempts[p] + 1, o)
       IN  /\ pc' = [pc EXCEPT ![p] = CASE d = "retry" -> "quiz"
                                        [] d = "return" -> "store"
                                        [] OTHER -> "done"]
           /\ quiz' = [quiz EXCEPT ![p] = IF d = "return" THEN text ELSE @]
           /\ topic' = [topic EXCEPT ![p] = IF d = "raise" THEN "" ELSE @]
           /\ result' = [result EXCEPT ![p] = IF d = "raise" THEN Err(call_openai_raises(o)) ELSE @]
           /\ store' = IF d = "raise"
                       THEN OnFailure(store, req[p].url, req[p].quiz_type)
                       ELSE store
           /\ attempts' = [attempts EXCEPT ![p] = IF d = "retry" THEN @ + 1 ELSE 0]
           /\ called' = [called EXCEPT ![p] = d # "raise"]
           /\ sawExpired' = [sawExpired EXCEPT ![p] = d # "raise" /\ @]
           /\ clsFailed' = [clsFailed EXCEPT ![p] = d # "raise" /\ @]
    /\ last' = [last EXCEPT ![p] = o]
    /\ onlyTransient' = [onlyTransient EXCEPT ![p] =
           call_openai(attempts[p] + 1, o) = "retry" => @ /\ o = "transient"]
    /\ UNCHANGED <<windows, req, joined, passed, since, refused, written>>

\* variant: the result is returned without being cached
store_and_return_uncached(p) ==
    /\ pc[p] = "store"
    /\ LET r == [topic |-> topic[p], quiz_type |-> req[p].quiz_type,
                 source_url |-> req[p].url, quiz |-> quiz[p]]
       IN  result' = [result EXCEPT ![p] = Ok(r, FALSE)]
    /\ pc' = [pc EXCEPT ![p] = "done"]
    /\ topic' = [topic EXCEPT ![p] = ""]
    /\ quiz' = [quiz EXCEPT ![p] = ""]
    /\ called' = [called EXCEPT ![p] = FALSE]
    /\ sawExpired' = [sawExpired EXCEPT ![p] = FALSE]
    /\ clsFailed' = [clsFailed EXCEPT ![p] = FALSE]
    /\ last' = [last EXCEPT ![p] = ""]
    /\ UNCHANGED <<store, written, windows, req, attempts, joined, passed, since, refused>>
    /\ UNCHANGED onlyTransient

\* lines 143-156: build the result, cache it, return it
store_and_return(p) ==
    /\ pc[p] = "store"
    /\ LET r == [topic |-> topic[p], quiz_type |-> req[p].quiz_type,
                 source_url |-> req[p].url, quiz |-> quiz[p]]
       IN  /\ store' = set_cached_quiz(store, req[p].url, req[p].quiz_type, r)
           /\ result' = [result EXCEPT ![p] = Ok(r, FALSE)]
           /\ written' = [written EXCEPT ![KeyOf(p)] =
                  [age |-> 0, payload |-> r,
                   over |-> Live(KeyOf(p)) /\ written[KeyOf(p)].payload # r]]
    /\ pc' = [pc EXCEPT ![p] = "done"]
    /\ topic' = [topic EXCEPT ![p] = ""]
    /\ quiz' = [quiz EXCEPT ![p] = ""]
    /\ called' = [called EXCEPT ![p] = FALSE]
    /\ sawExpired' = [sawExpired EXCEPT ![p] = FALSE]
    /\ clsFailed' = [clsFailed EXCEPT ![p] = FALSE]
    /\ last' = [last EXCEPT ![p] = ""]
    /\ UNCHANGED <<windows, req, attempts, joined, passed, since, refused>>
    /\ UNCHANGED onlyTransient

\* admin_router.clear_redis_cache
clear_redis_cache ==
    /\ store' = redis_flushdb(store)
    /\ written' = [k \in Keys |-> NotWritten]
    /\ UNCHANGED <<windows, pc, req, attempts, last, topic, quiz, result,
                   called, joined, sawExpired, passed, since, refused, clsFailed>>
    /\ UNCHANGED onlyTransient

\* the clock advances by Step seconds
Tick ==
    /\ store' = redis_elapse(store, Step)
    /\ windows' = limiter_elapse(windows, Step)
    /\ written' = [k \in Keys |->
           IF written[k].age < 0 THEN written[k]
           ELSE IF written[k].age + Step > CACHE_TTL THEN Expired
           ELSE [written[k] EXCEPT !.age = @ + Step, !.over = FALSE]]
    /\ since' = [i \in Identities |->
           IF since[i] < 0 THEN since[i] ELSE Min(since[i] + Step, Window)]
    /\ UNCHANGED <<pc, req, attempts, last, topic, quiz, result,
                   called, joined, sawExpired, passed, refused, clsFailed>>
    /\ UNCHANGED onlyTransient

\* the limiter drops the window of an idle client address
evict(id) ==
    /\ Evictable(windows, id)
    /\ windows' = [windows EXCEPT ![id] = NoWindow]
    /\ UNCHANGED <<store, pc, req, attempts, last, onlyTransient, topic, quiz, result,
                   called, joined, sawExpired, passed, since, refused, clsFailed, written>>

\* ------------------------------------------- the retry wrappers, called alone
\* one attempt of a direct call of scraper_service.call_openai
call_openai_attempt(p, o) ==
    /\ pc[p] \in {"idle", "call_openai"}
    /\ LET d == call_openai(attempts[p] + 1, o)
       IN  /\ pc' = [pc EXCEPT ![p] = IF d = "retry" THEN "call_openai" ELSE "done"]
           /\ result' = [result EXCEPT ![p] =
                  CASE d = "retry" -> @
                    [] d = "return" -> Ok(NoPayload, FALSE)
                    [] OTHER -> Err(call_openai_raises(o))]
    /\ attempts' = [attempts EXCEPT ![p] = @ + 1]
    /\ last' = [last EXCEPT ![p] = o]
    /\ onlyTransient' = [onlyTransient EXCEPT ![p] = @ /\ o \in {"ok", "transient"}]
    /\ UNCHANGED <<store, windows, req, topic, quiz, called, joined, sawExpired,
                   passed, since, refused, clsFailed, written>>

\* one attempt of a direct call of retry_utils.retry_openai_call
retry_openai_call_attempt(p, o) ==
    /\ pc[p] \in {"idle", "retry_openai_call"}
    /\ LET d == retry_openai_call(attempts[p] + 1, o)
       IN  /\ pc' = [pc EXCEPT ![p] = IF d = "retry" THEN "retry_openai_call" ELSE "done"]
           /\ result' = [result EXCEPT ![p] =
                  CASE d = "retry" -> @
                    [] d = "return" -> Ok(NoPayload, FALSE)
                    [] OTHER -> Err(retry_openai_call_raises(o))]
    /\ attempts' = [attempts EXCEPT ![p] = @ + 1]
    /\ last' = [last EXCEPT ![p] = o]
    /\ onlyTransient' = [onlyTransient EXCEPT ![p] = @ /\ o \in {"ok", "transient"}]
    /\ UNCHANGED <<store, windows, req, topic, quiz, called, joined, sawExpired,
                   passed, since, refused, clsFailed, written>>

\* ------------------------------------------------- a damaged cache entry
\* the bytes stored under a key are damaged from outside the program
corrupt_entry(k, v) ==
    /\ store[k].present
    /\ store' = [store EXCEPT ![k].value = v]
    /\ UNCHANGED <<windows, pc, req, attempts, last, onlyTransient, topic, quiz, result,
                   called, joined, sawExpired, passed, since, refused, clsFailed, written>>

\* ------------------------------------------------- a client that goes away
\* the client of a running request disconnects. The handler is a coroutine
\* that calls the synchronous generate_quiz_from_url and never looks at the
\* connection, so the request runs on.
client_disconnect(p) ==
    /\ pc[p] \in {"route", "lookup", "fetch", "classify", "quiz", "store"}
    /\ ~req[p].gone
    /\ req' = [req EXCEPT ![p].gone = TRUE]
    /\ UNCHANGED <<store, windows, pc, attempts, last, onlyTransient, topic, quiz, result,
                   called, joined, sawExpired, passed, since, refused, clsFailed, written>>

NextRetry ==
    \/ \E p \in Procs, o \in CallOutcomes : call_openai_attempt(p, o)
    \/ \E p \in Procs, o \in CallOutcomes : retry_openai_call_attempt(p, o)

SpecRetry == Init /\ [][NextRetry]_vars

\* the requests over a store whose entries may be damaged
NextCorrupt ==
    \/ \E p \in Procs, ip \in Identities, url \in Urls, qt \in QuizTypes :
           enforce_rate_limit(p, ip, url, qt)
    \/ \E p \in Procs : generate_quiz_from_article(p)
    \/ \E p \in Procs : lookup(p)
    \/ \E p \in Procs, fetched \in BOOLEAN : fetch_article_html(p, fetched)
    \/ \E p \in Procs, o \in Outcomes, text \in TopicTexts : classify_attempt(p, o, text)
    \/ \E p \in Procs, o \in Outcomes, text \in QuizTexts : quiz_attempt(p, o, text)
    \/ \E p \in Procs : store_and_return(p)
    \/ \E k \in Keys, v \in CorruptValues : corrupt_entry(k, v)

SpecCorrupt == Init /\ [][NextCorrupt]_vars

\* the requests, and clients that go away while their requests run
NextCancel ==
    \/ \E p \in Procs, ip \in Identities, url \in Urls, qt \in QuizTypes :
           enforce_rate_limit(p, ip, url, qt)
    \/ \E p \in Procs : generate_quiz_from_article(p)
    \/ \E p \in Procs : lookup(p)
    \/ \E p \in Procs, fetched \in BOOLEAN : fetch_article_html(p, fetched)
    \/ \E p \in Procs, o \in Outcomes, text \in TopicTexts : classify_attempt(p, o, text)
    \/ \E p \in Procs, o \in Outcomes, text \in QuizTexts : quiz_attempt(p, o, text)
    \/ \E p \in Procs : store_and_return(p)
    \/ \E p \in Procs : client_disconnect(p)

SpecCancel == Init /\ [][NextCancel]_vars

\* the requests, with the quiz type spelled either way
NextKeys ==
    \/ \E p \in Procs, ip \in Identities, url \in Urls, qt \in QuizTypeForms :
           enforce_rate_limit(p, ip, url, qt)
    \/ \E p \in Procs : generate_quiz_from_article(p)
    \/ \E p \in Procs : lookup(p)
    \/ \E p \in Procs, fetched \in BOOLEAN : fetch_article_html(p, fetched)
    \/ \E p \in Procs, o \in Outcomes, text \in TopicTexts : classify_attempt(p, o, text)
    \/ \E p \in Procs, o \in Outcomes, text \in QuizTexts : quiz_attempt(p, o, text)
    \/ \E p \in Procs : store_and_return(p)

SpecKeys == Init /\ [][NextKeys]_vars

\* the limiter alone: the checks of arriving requests, the clock, evictions
NextEvict ==
    \/ \E p \in Procs, ip \in Identities, url \in Urls, qt \in QuizTypes :
           enforce_rate_limit(p, ip, url, qt)
    \/ \E p \in Procs : generate_quiz_from_article(p)
    \/ Tick
    \/ \E i \in Identities : evict(i)

SpecEvict == Init /\ [][NextEvict]_vars

\* -------------------------------------------------- one worker, one loop
\* generate_quiz_from_article is a coroutine (async def) that calls the
\* synchronous generate_quiz_from_url: from that call to its return the
\* request runs on the worker's event loop without an await
OnLoop(p) == pc[p] \in {"lookup", "fetch", "classify", "quiz", "store"}

\* the event loop runs a coroutine of the request only while no other
\* request is running on it
LoopFree(p) == \A q \in Procs \ {p} : ~OnLoop(q)

\* the event loop runs the next step of the request
Serve(p) ==
    /\ LoopFree(p)
    /\ \/ \E ip \in Identities, url \in Urls, qt \in QuizTypeForms :
              enforce_rate_limit(p, ip, url, qt)
       \/ generate_quiz_from_article(p)
       \/ lookup(p)
       \/ \E fetched \in BOOLEAN : fetch_article_html(p, fetched)
       \/ \E o \in Outcomes, text \in TopicTexts : classify_attempt(p, o, text)
       \/ \E o \in Outcomes, text \in QuizTexts : quiz_attempt(p, o, text)
       \/ store_and_return(p)

NextLoop == \E p \in Procs : Serve(p)

SpecLoop == Init /\ [][NextLoop]_vars

Next ==
    \/ \E p \in Procs, ip \in Identities, url \in Urls, qt \in QuizTypes :
           enforce_rate_limit(p, ip, url, qt)
    \/ \E p \in Procs : generate_quiz_from_article(p)
    \/ \E p \in Procs : lookup(p)
    \/ \E p \in Procs, fetched \in BOOLEAN : fetch_article_html(p, fetched)
    \/ \E p \in Procs, o \in Outcomes, text \in TopicTexts : classify_attempt(p, o, text)
    \/ \E p \in Procs, o \in Outcomes, text \in QuizTexts : quiz_attempt(p, o, text)
    \/ \E p \in Procs : store_and_return(p)
    \/ clear_redis_cache
    \/ Tick

Spec == Init /\ [][Next]_vars

\* the steps of request p once it has arrived
Resolve(p) ==
    \/ generate_quiz_from_article(p)
    \/ lookup(p)
    \/ \E fetched \in BOOLEAN : fetch_article_html(p, fetched)
    \/ \E o \in Outcomes, text \in TopicTexts : classify_attempt(p, o, text)
    \/ \E o \in Outcomes, text \in QuizTexts : quiz_attempt(p, o, text)
    \/ store_and_return(p)

\* no request is being served
Quiet == \A p \in Procs : pc[p] \in {"idle", "done"}

\* the requests and the flush; the time that passes while a request is served
\* is in the outcomes of its attempts (time-outs), the time between requests
\* lets entries and windows run out
NextFair ==
    \/ \E p \in Procs, ip \in Identities, url \in Urls, qt \in QuizTypes :
           enforce_rate_limit(p, ip, url, qt)
    \/ \E p \in Procs : Resolve(p)
    \/ clear_redis_cache
    \/ Quiet /\ Tick

\* each worker process keeps running its request: the handler is straight
\* line code, requests.get has timeout=10, every upstream attempt ends
\* (returns, raises or times out) and the wait between attempts is 1 to 2 s
SpecFair == Init /\ [][NextFair]_vars /\ \A p \in Procs : WF_vars(Resolve(p))

TypeOK ==
    /\ pc \in [Procs -> {"idle", "route", "lookup", "fetch", "classify", "quiz", "store",
                          "call_openai", "retry_openai_call", "done"}]
    /\ \A p \in Procs : attempts[p] \in 0..MaxAttempts

\* ------------------------------------------------------- steps and cases
\* the request does its cache lookup in this step
LookupStep(p) == pc[p] = "lookup" /\ pc'[p] # "lookup"

\* the request makes an upstream attempt in this step
AttemptStep(p) ==
    /\ pc[p] \in {"classify", "quiz"}
    /\ attempts'[p] # attempts[p] \/ pc'[p] # pc[p]

\* one of the two limiter checks of the request happens in this step
CheckStep(p) == \/ pc[p] = "idle" /\ pc'[p] # "idle"
                \/ pc[p] = "route" /\ pc'[p] # "route"

\* the request caches its result and returns it in this step
PutStep(p) == pc[p] = "store" /\ pc'[p] = "done"

\* the request is inside an upstream call (an attempt or the wait before the next)
Upstream(p) == pc[p] \in {"classify", "quiz"}

\* ----------------------------------------------------------------- C1
\* C1 (fan-in): of the requests for one key that are in flight together, all
\* having missed the cache, at most one has called the upstream; the others
\* wait for its payload.
C1_FanIn ==
    \A p, q \in Procs :
        (p # q /\ InFlight(p) /\ InFlight(q) /\ KeyOf(p) = KeyOf(q))
            => ~(called[p] /\ called[q])

\* ----------------------------------------------------------------- C2
\* C2 (cache idempotence): once a result is cached for a key, a later lookup
\* of the key before its expiry, with no flush in between, returns the cached
\* payload at once, with no upstream attempt.
C2_CacheIdempotence ==
    [][\A p \in Procs :
          (LookupStep(p) /\ Live(KeyOf(p)))
              => /\ pc'[p] = "done"
                 /\ result'[p] = Ok(written[KeyOf(p)].payload, TRUE)
                 /\ ~called'[p]]_vars

\* a request got from the cache what another request generated
C2_Witness ==
    \E p, q \in Procs :
        /\ p # q
        /\ pc[p] = "done" /\ result[p].kind = "ok" /\ result[p].cached
        /\ pc[q] = "done" /\ result[q].kind = "ok" /\ ~result[q].cached
        /\ result[p].payload = result[q].payload

\* ----------------------------------------------------------------- C3
\* C3 (rate limiter boundary): a check of a client address lets the request
\* through if fewer than Limit checks of the address were passed in the
\* limiter's current window, or if that window has elapsed; otherwise the
\* request ends with RateLimited.
C3_RateLimitBoundary ==
    [][\A p \in Procs :
          CheckStep(p) =>
              LET ip == req'[p].ip
                  opened == ~windows[ip].present \/ windows[ip].age >= Window
                  n == IF opened THEN 0 ELSE passed[ip]
              IN  IF n < Limit
                  THEN pc'[p] \in {"route", "lookup"} /\ passed'[ip] = n + 1
                  ELSE pc'[p] = "done" /\ result'[p] = Err("RateLimited")]_vars

\* a request was turned away at the limit and, the window having elapsed, the
\* next check of the same address opened a new window
C3_Witness ==
    \E p, q \in Procs :
        /\ p # q /\ req[p].ip = req[q].ip
        /\ pc[p] = "done" /\ result[p].kind = "RateLimited"
        /\ pc[q] = "lookup"
        /\ passed[req[q].ip] = 1 /\ windows[req[q].ip].request_count = 1

\* ----------------------------------------------------------------- C4
\* C4 (atomic admission): in no window of the limiter are more than Limit
\* checks of one client address passed, however the checks of concurrent
\* requests interleave.
C4_AtomicAdmission == \A i \in Identities : passed[i] <= Limit

\* two requests of one address raced for the last unit: one check passed, the
\* other was turned away
C4_Witness ==
    \E p, q \in Procs :
        /\ p # q /\ req[p].ip = req[q].ip
        /\ pc[p] = "done" /\ refused[p]
        /\ pc[q] = "lookup" /\ ~refused[q]
        /\ passed[req[q].ip] = Limit

\* ----------------------------------------------------------------- C5
\* C5 (TTL expiry): a cached entry has expires_at = put time + CACHE_TTL; a
\* lookup hits exactly while now <= expires_at, and a lookup after that goes
\* on to generate again.
C5_TtlExpiry ==
    /\ [](\A k \in Keys : store[k].present => store[k].ttl = CACHE_TTL - written[k].age)
    /\ [][\A p \in Procs :
             /\ PutStep(p) => store'[KeyOf(p)].present /\ store'[KeyOf(p)].ttl = CACHE_TTL
             /\ LookupStep(p) =>
                    /\ (pc'[p] = "done") <=> Live(KeyOf(p))
                    /\ written[KeyOf(p)] = Expired => pc'[p] = "fetch"]_vars

\* a request that looked the key up after its entry expired is calling upstream
C5_Witness == \E p \in Procs : sawExpired[p] /\ Upstream(p) /\ called[p]

\* ----------------------------------------------------------------- C6
\* C6 (retry outcome): a call whose third attempt succeeds after two failures
\* returns; a call whose three attempts all fail transiently ends the request
\* with the exhaustion error, and nothing is cached.
C6_RetryOutcome ==
    [][\A p \in Procs :
          (AttemptStep(p) /\ attempts[p] = MaxAttempts - 1 /\ onlyTransient[p]) =>
              /\ last'[p] = "ok" => pc'[p] \in {"quiz", "store"}
              /\ last'[p] = "transient" =>
                     /\ pc'[p] = "done"
                     /\ result'[p] = Err("RetryError")
                     /\ store' = store]_vars

\* ----------------------------------------------------------------- C7
\* C7 (no negative caching): the step in which a request fails upstream leaves
\* the cache as it was, the cache holds nothing but generated results, and a
\* lookup that finds no entry goes on to generate; a request that fails has
\* made its own attempts.
C7_NoNegativeCaching ==
    /\ [](\A k \in Keys :
             store[k].present => Live(k) /\ json_loads(store[k].value) = written[k].payload)
    /\ [][\A p \in Procs :
             /\ (pc[p] # "done" /\ pc'[p] = "done" /\ result'[p].kind = "RetryError")
                    => /\ store' = store
                       /\ AttemptStep(p) /\ attempts[p] = MaxAttempts - 1
             /\ (LookupStep(p) /\ ~store[KeyOf(p)].present) => pc'[p] = "fetch"]_vars

\* after one request failed upstream, a later one for the same key is calling
\* the upstream itself
C7_Witness ==
    \E p, q \in Procs :
        /\ p # q /\ KeyOf(p) = KeyOf(q)
        /\ pc[q] = "done" /\ result[q].kind = "RetryError"
        /\ joined[q] = "" /\ joined[p] = ""
        /\ Upstream(p) /\ called[p]

\* ----------------------------------------------------------------- C8
\* C8 (waiter outcome agreement): a request that missed while another was in
\* flight for its key makes no upstream attempt of its own and returns what
\* that other request returns.
C8_WaiterAgreement ==
    \A p \in Procs :
        joined[p] # "" =>
            /\ ~called[p]
            /\ (pc[p] = "done" /\ pc[joined[p]] = "done")
                   => /\ result[p].kind = result[joined[p]].kind
                      /\ result[p].payload = result[joined[p]].payload

\* ----------------------------------------------------------------- C9
\* C9 (single in-flight): no two requests for one key are inside an upstream
\* call at the same time.
C9_SingleInFlight ==
    \A p, q \in Procs :
        (p # q /\ KeyOf(p) = KeyOf(q)) => ~(Upstream(p) /\ Upstream(q))

\* ---------------------------------------------------------------- C10
\* C10 (non-transient failures are not retried): after an attempt that failed
\* with an authentication or invalid-request error the call makes no further
\* attempt, and the request ends with that error's own kind.
C10_NoRetryOfNonTransient ==
    \A p \in Procs :
        last[p] = "auth" =>
            /\ pc[p] = "done"
            /\ result[p].kind = "UpstreamAuthFailure"

\* ---------------------------------------------------------------- C11
\* the call made all its attempts and every one of them failed transiently
Exhausted(p) ==
    /\ pc[p] = "done" /\ attempts[p] = MaxAttempts
    /\ onlyTransient[p] /\ last[p] = "transient"

\* C11 (exhaustion is a distinct error): a call whose attempts all failed
\* transiently delivers an error of its own kind, not the exception of its
\* last attempt.
C11_ExhaustionDistinct ==
    \A p \in Procs : Exhausted(p) => result[p].kind \notin CallOutcomes

\* ---------------------------------------------------------------- C12
\* the entry of the key is readable from Redis but json.loads fails on it
Corrupt(k) == redis_get(store, k).present /\ json_loads_raises(store[k].value) # "none"

\* C12 (corrupt entry resilience): a lookup of a key whose stored entry cannot
\* be decoded raises nothing and goes on as a miss does, and the result
\* generated then replaces the damaged entry.
C12_CorruptEntryResilience ==
    [][\A p \in Procs :
          /\ (LookupStep(p) /\ Corrupt(KeyOf(p)))
                 => pc'[p] = "fetch" /\ result'[p] = NoResult
          /\ PutStep(p) => store'[KeyOf(p)].value = json_dumps(result'[p].payload)]_vars

\* ---------------------------------------------------------------- C13
\* C13 (admission precedes everything): a request goes to the handler, and
\* from the handler to the cache lookup, only in a step in which the limiter
\* allowed it; the lookup, the fetch, the upstream calls and the cache write
\* follow one another from there. A denied request ends at once with
\* RateLimited: it has looked nothing up, called nothing and written nothing.
C13_AdmissionFirst ==
    /\ [](\A p \in Procs :
             refused[p] => /\ pc[p] = "done" /\ result[p] = Err("RateLimited")
                           /\ ~called[p] /\ joined[p] = "")
    /\ [][\A p \in Procs :
             /\ (pc[p] # "route" /\ pc'[p] = "route")
                    => pc[p] = "idle" /\ allow_request(windows, req'[p].ip).ok
             /\ (pc[p] # "lookup" /\ pc'[p] = "lookup")
                    => pc[p] = "route" /\ allow_request(windows, req[p].ip).ok
             /\ (pc[p] # "fetch" /\ pc'[p] = "fetch") => pc[p] = "lookup"
             /\ (pc[p] # "classify" /\ pc'[p] = "classify") => pc[p] = "fetch"
             /\ (pc[p] # "quiz" /\ pc'[p] = "quiz") => pc[p] = "classify"
             /\ (pc[p] # "store" /\ pc'[p] = "store") => pc[p] = "quiz"
             /\ (CheckStep(p) /\ ~allow_request(windows, req'[p].ip).ok)
                    => /\ pc'[p] = "done" /\ result'[p] = Err("RateLimited")
                       /\ store' = store /\ written' = written]_vars

\* a request was denied while the cache held a live entry for its key, which
\* a lookup would have returned
C13_Witness ==
    \E p \in Procs :
        /\ pc[p] = "done" /\ refused[p] /\ result[p] = Err("RateLimited")
        /\ get_cached_quiz(store, req[p].url, req[p].quiz_type).hit

\* ---------------------------------------------------------------- C14
\* the request missed while another was in flight for its key, and its client
\* is gone
CancelledWaiter(p) == joined[p] # "" /\ req[p].gone

C15_PutGetVisibility ==
    /\ [](\A u \in Urls, q \in QuizTypes :
             Live(cache_key_url(u, q)) =>
                 get_cached_quiz(store, u, q) =
                     [hit |-> TRUE, value |-> written[cache_key_url(u, q)].payload,
                      raised |-> "none"])
    /\ [][\A p \in Procs :
             PutStep(p) =>
                 /\ store'[KeyOf(p)] =
                        [present |-> TRUE, value |-> json_dumps(result'[p].payload),
                         ttl |-> CACHE_TTL]
                 /\ get_cached_quiz(store', req[p].url, req[p].quiz_type).value
                        = result'[p].payload]_vars

\* a request's result has replaced the live entry another request had cached
\* with another payload, and a lookup now gets the new one
C15_Witness ==
    \E p, q \in Procs :
        /\ p # q /\ pc[p] = "done" /\ pc[q] = "done" /\ KeyOf(p) = KeyOf(q)
        /\ result[p].kind = "ok" /\ ~result[p].cached
        /\ result[q].kind = "ok" /\ ~result[q].cached
        /\ result[p].payload # result[q].payload
        /\ written[KeyOf(p)].over
        /\ get_cached_quiz(store, req[p].url, req[p].quiz_type).value = result[p].payload

\* ---------------------------------------------------------------- C16
\* C16 (clear is a full flush): once the cache is cleared, a lookup of any key
\* finds nothing, and a key has an entry again only from the step in which a
\* request caches a generated result for it.
C16_ClearFlushesAll ==
    /\ [](\A u \in Urls, q \in QuizTypes :
             written[cache_key_url(u, q)] = NotWritten =>
                 /\ ~store[cache_key_url(u, q)].present
                 /\ get_cached_quiz(store, u, q) = Miss)
    /\ [][\A k \in Keys :
             (~store[k].present /\ store'[k].present)
                 => \E p \in Procs : PutStep(p) /\ KeyOf(p) = k]_vars

\* a request cached its result, the cache was cleared after that, and the key
\* has no entry
C16_Witness ==
    \E p \in Procs :
        /\ pc[p] = "done" /\ result[p].kind = "ok" /\ ~result[p].cached
        /\ written[KeyOf(p)] = NotWritten
        /\ get_cached_quiz(store, req[p].url, req[p].quiz_type) = Miss

\* ---------------------------------------------------------------- C17
\* the request's parameters in normal form
Normalized(r) == <<r.url, Upper(r.quiz_type)>>

\* C17 (fingerprint determinism and separation): two requests have the same
\* cache key exactly if their normalized parameters are equal, so requests
\* whose quiz types differ in letter case only share the key.
C17_FingerprintDeterminism ==
    \A p, q \in Procs :
        (pc[p] # "idle" /\ pc[q] # "idle")
            => (KeyOf(p) = KeyOf(q) <=> Normalized(req[p]) = Normalized(req[q]))

\* ---------------------------------------------------------------- C18
\* C18 (eviction never over-admits): the limiter drops a window only when the
\* window is over, and in no window of W seconds are more than Limit checks
\* of one client address passed, evictions or not.
C18_EvictionNeverOverAdmits ==
    /\ [](\A i \in Identities : ~Fresh(i) => passed[i] <= Limit)
    /\ [][\A i \in Identities :
             (windows[i].present /\ ~windows'[i].present) => windows[i].age >= Window]_vars

\* a client address used its whole limit, and when its window was over the
\* limiter evicted it
C18_Witness ==
    \E i \in Identities :
        /\ ~windows[i].present
        /\ since[i] >= Window /\ passed[i] = Limit

\* ---------------------------------------------------------------- C19
\* C19 (no silent degradation): a request one of whose upstream calls failed,
\* out of attempts, ends with an error that is not RateLimited; it never
\* returns a result, with a default standing in for what the call should
\* have generated.
C19_NoSilentDegradation ==
    [][\A p \in Procs :
          (/\ pc[p] # "done" /\ pc'[p] = "done"
           /\ clsFailed[p] \/ (AttemptStep(p) /\ last'[p] # "ok"))
              => result'[p].kind \notin {"ok", "RateLimited", "none"}]_vars

\* ---------------------------------------------------------------- C20
\* the request makes the first upstream attempt of its generation in this step
StartStep(p) == AttemptStep(p) /\ ~called[p]

\* C20 (per-fingerprint state machine): a request starts generating for a key
\* only when the key is absent: the cache holds no live entry for it and no
\* other request is generating for it. A request that missed and comes to
\* generate after another one has cached the result does not start.
C20_StartOnlyWhenAbsent ==
    [][\A p \in Procs :
          StartStep(p) =>
              /\ ~get_cached_quiz(store, req[p].url, req[p].quiz_type).hit
              /\ \A q \in Procs \ {p} :
                     KeyOf(q) = KeyOf(p) => ~(InFlight(q) /\ called[q])]_vars

\* ---------------------------------------------------------------- C21
\* C21 (no lock across the upstream call): while a request is inside an
\* upstream call, attempt or wait, it holds nothing that keeps the others
\* out: a request that has not finished, whatever its key and client
\* address, can take its next step.
C21_NoLockAcrossUpstream ==
    \A p, q \in Procs :
        (p # q /\ Upstream(p) /\ pc[q] # "done") => ENABLED Serve(q)

\* ---------------------------------------------------------------- C22
\* C22 (cache entry immutability): from one state to the next in which a key
\* has a live entry, the entry's payload is the same and its expiry time is
\* no later; a result is cached only for a key that has no live entry.
C22_EntryImmutable ==
    [][/\ \A k \in Keys :
             (redis_get(store, k).present /\ redis_get(store', k).present)
                 => store'[k].value = store[k].value /\ store'[k].ttl <= store[k].ttl
       /\ \A p \in Procs :
             PutStep(p) => ~redis_get(store, KeyOf(p)).present]_vars

\* ---------------------------------------------------------------- C23
\* C23 (store before release): in the state in which a request first holds a
\* generated result, the cache already has that result under the request's
\* key with the full time to live, so a lookup made at once is a hit with the
\* same payload.
C23_StoreBeforeRelease ==
    [][\A p \in Procs :
          (result[p] = NoResult /\ result'[p].kind = "ok" /\ ~result'[p].cached)
              => /\ redis_get(store', KeyOf(p)).present
                 /\ redis_get(store', KeyOf(p)).ttl = CACHE_TTL
                 /\ get_cached_quiz(store', req[p].url, req[p].quiz_type)
                        = [hit |-> TRUE, value |-> result'[p].payload,
                           raised |-> "none"]]_vars

\* a request was served from the cache, with no time passed, the result that
\* another request had just generated
C23_Witness ==
    \E p, q \in Procs :
        /\ p # q /\ KeyOf(p) = KeyOf(q)
        /\ pc[p] = "done" /\ result[p].kind = "ok" /\ ~result[p].cached
        /\ pc[q] = "done" /\ result[q] = Ok(result[p].payload, TRUE)
        /\ written[KeyOf(p)].age = 0 /\ ~written[KeyOf(p)].over
        /\ store[KeyOf(p)].ttl = CACHE_TTL

\* ---------------------------------------------------------------- C25
\* C25 (rate windows are per identity): a limiter check of a request changes
\* no window but that of the request's client address, changes neither the
\* cache nor the position of any other request, and its outcome is the one it
\* would have with every other address's window absent.
C25_WindowsPerIdentity ==
    [][\A p \in Procs :
          CheckStep(p) =>
              LET i == req'[p].ip
                  alone == [j \in Identities |-> IF j = i THEN windows[i] ELSE NoWindow]
              IN  /\ \A j \in Identities \ {i} : windows'[j] = windows[j]
                  /\ store' = store
                  /\ \A q \in Procs \ {p} : pc'[q] = pc[q] /\ joined'[q] = joined[q]
                  /\ refused'[p] = ~allow_request(alone, i).ok
                  /\ windows'[i] = allow_request(alone, i).w[i]]_vars

\* the window of one client address is used up, and a request from another
\* address has passed both its checks
C25_Witness ==
    \E p, q \in Procs :
        /\ req[p].ip # "" /\ req[q].ip # "" /\ req[p].ip # req[q].ip
        /\ ~allow_request(windows, req[p].ip).ok
        /\ pc[q] = "lookup" /\ ~refused[q]
        /\ windows[req[q].ip].present /\ windows[req[q].ip].age = 0

C27_OnlyGenuineResults ==
    /\ [](\A k \in Keys :
             redis_get(store, k).present =>
                 /\ json_loads(store[k].value).topic \in TopicTexts
                 /\ json_loads(store[k].value).quiz \in QuizTexts)
    /\ [][\A p \in Procs : clsFailed[p] => store' = store \/ store' = redis_flushdb(store)]_vars

\* ---------------------------------------------------------------- C28
\* C28 (every resolve terminates): a request that has arrived ends, with a
\* result or with an error, whatever the other requests do and whichever
\* upstream attempts fail.
C28_EveryResolveTerminates ==
    \A p \in Procs :
        (pc[p] \notin {"idle", "done"}) ~> (pc[p] = "done" /\ result[p] # NoResult)

\* a request that missed while another was generating for its key has ended,
\* and the other one has ended with its upstream call out of attempts
C28_Witness ==
    \E p, q \in Procs :
        /\ p # q /\ joined[q] = p
        /\ pc[p] = "done" /\ result[p] = Err("RetryError")
        /\ pc[q] = "done" /\ result[q] # NoResult

\* ---------------------------------------------------------------- C29
\* the least number of upstream attempts the request has made in the calls it
\* has finished: the classification call made MaxAttempts when it ran out, at
\* least one otherwise
AttemptsBefore(p) ==
    IF pc[p] = "quiz" THEN (IF clsFailed[p] THEN MaxAttempts ELSE 1) ELSE 0

\* C29 (attempt budget per resolve): with the attempt a request makes in a
\* step it has made no more than MaxAttempts upstream attempts in all, over
\* all the upstream calls of the request.
C29_AttemptBudget ==
    [][\A p \in Procs :
          AttemptStep(p) => AttemptsBefore(p) + attempts[p] + 1 <= MaxAttempts]_vars

====
